---- MODULE Spec2Model ----
(***************************************************************************)
(* A model of demoland_engine/predictors.py: the import-time loading of    *)
(* the three predictors, get_indicators and get_indicators_lsoa.           *)
(*                                                                         *)
(* Identifiers are integers: output areas (OA) are 1, 2, 3, larger areas   *)
(* (LSOA) are 101, 102.  Floats are integers (tenths where the             *)
(* docstring gives a real range); a mean is an exact fraction <<num,den>>  *)
(* in lowest terms.  A DataFrame is [index |-> Seq(label), rows |->        *)
(* Seq(row)], a Series is a sequence of [key, val] records.                *)
(***************************************************************************)
EXTENDS Integers, Sequences, FiniteSets, TLC

\* ---------------------------------------------------------------- bounds
\* Rows of the caller's scenario table, and the seeds a caller may pass.
MaxRows == 2
MaxSeed == 1

\* ------------------------------------------------------- values and sets
\* random_seed=None, the default of get_indicators.
None == 0
\* The missing value a left merge leaves in the columns of unmatched rows.
NaN == -99

\* The geography of the cached reference data: output areas and larger areas.
OACodes == {1, 2, 3}
LsoaCodes == {101, 102}
NumOA == Cardinality(OACodes)
\* An identifier a caller may name that no mapping row carries.
UnknownCodes == {100}

Artifacts ==
  {"air_quality_predictor", "house_price_predictor", "accessibility",
   "empty.parquet", "oa_lsoa.parquet"}

PredictorArtifacts ==
  <<"air_quality_predictor", "house_price_predictor", "accessibility">>

SupportedModes == {"walk", "bike", "car", "transit"}
\* Modes a caller passes: the default, another supported one, an unsupported one.
CallModes == {"walk", "transit", "spaceship"}

Seeds == {None} \cup (1..MaxSeed)
Noises == 0..MaxSeed

Unloaded == [artifact |-> "", loads |-> 0, order |-> <<>>]

\* Scenario rows within the docstring's bounds (use, greenspace, job_types in tenths).
ScenarioRows ==
  { [signature_type |-> 6, use |-> 0, greenspace |-> 2, job_types |-> 5],
    [signature_type |-> 15, use |-> -10, greenspace |-> 10, job_types |-> 0] }

NaNRow ==
  [signature_type |-> NaN, use |-> NaN, greenspace |-> NaN, job_types |-> NaN]

\* ------------------------------------------------------ sequence helpers
Range(s) == {s[i] : i \in DOMAIN s}

Injective(s) == \A i, j \in DOMAIN s : s[i] = s[j] => i = j

RECURSIVE SumSeq(_)
SumSeq(s) == IF s = <<>> THEN 0 ELSE Head(s) + SumSeq(Tail(s))

RECURSIVE Gcd(_, _)
Gcd(a, b) == IF b = 0 THEN a ELSE Gcd(b, a % b)

Abs(x) == IF x < 0 THEN -x ELSE x

\* Float division of an integer sum by a positive count, as an exact fraction.
Div(a, n) ==
  LET g == Gcd(Abs(a), n) IN <<a \div g, n \div g>>

ToFloat(v) == <<v, 1>>

RECURSIVE SortedSeq(_)
SortedSeq(S) ==
  IF S = {} THEN <<>>
  ELSE LET m == CHOOSE x \in S : \A y \in S : x <= y
       IN <<m>> \o SortedSeq(S \ {m})

\* All tables of at most n rows with a unique index over labels.
Tables(labels, rows, n) ==
  UNION { { [index |-> ix, rows |-> rs] :
              ix \in {p \in [1..k -> labels] : Injective(p)},
              rs \in [1..k -> rows] } : k \in 0..n }

VARIABLES
  proc,                    \* "init" | "running" | "failed": the import of the module
  available,               \* artifacts CACHE.fetch can resolve
  files,                   \* contents of the cached artifacts
  fetched,                 \* artifacts CACHE.fetch has resolved so far
  air_quality_predictor,   \* module global, line 9
  house_price_predictor,   \* module global, line 12
  accessibility,           \* module global, line 15
  scenario,                \* the caller's scenario table
  last,                    \* the last call: arguments, locals, outcome
  seeded                   \* the caller's record of its seeded get_indicators results

vars == <<proc, available, files, fetched, air_quality_predictor,
          house_price_predictor, accessibility, scenario, last, seeded>>

EmptyFrame == [index |-> <<>>, rows |-> <<>>]

\* ------------------------------------------------------------ collaborators
\* CACHE.fetch(name): the local path of the artifact, or a failure.
Fetch(name) == name \in available

\* The baseline data the sampler holds for an output area.
Baseline(label) == label * label

\* One feature value of a scenario row; a row of missing values keeps the baseline.
Feature(label, row, rng) ==
  IF row.signature_type = NaN THEN Baseline(label) + rng
  ELSE Baseline(label) + row.signature_type + row.use + rng

Jobs(label, row, rng) ==
  IF row.signature_type = NaN THEN Baseline(label) + rng
  ELSE Baseline(label) + row.job_types + row.use + rng

Greenspace(label, row, rng) ==
  IF row.signature_type = NaN THEN Baseline(label) + rng
  ELSE Baseline(label) + row.greenspace + rng

\* get_data(df, random_seed): features by position, jobs and greenspace keyed by
\* the index of df.  Without a seed the generator draws from entropy (noise).
GetData(df, random_seed, noise) ==
  LET rng == IF random_seed = None THEN noise ELSE random_seed
      n == Len(df.index)
  IN [vars |-> [i \in 1..n |-> Feature(df.index[i], df.rows[i], rng)],
      jobs |-> [i \in 1..n |->
                  [key |-> df.index[i], val |-> Jobs(df.index[i], df.rows[i], rng)]],
      gsp |-> [i \in 1..n |->
                  [key |-> df.index[i], val |-> Greenspace(df.index[i], df.rows[i], rng)]]]

Coef(model) == IF model.artifact = "air_quality_predictor" THEN 2 ELSE 3

\* model.predict(X): one value per row of X, in the order of X.
Predict(model, X) == [i \in DOMAIN X |-> Coef(model) * X[i] + 1]

ModeFactor(mode) ==
  CASE mode = "walk" -> 1 [] mode = "bike" -> 2 [] mode = "car" -> 3 [] OTHER -> 4

Lookup(series, key) ==
  LET i == CHOOSE j \in DOMAIN series : series[j].key = key IN series[i].val

HasKey(series, key) == \E j \in DOMAIN series : series[j].key = key

\* The engine answers in its own order of areas, keyed by area.
EngineSeries(engine, input, mode, weight) ==
  LET keys == SelectSeq(engine.order, LAMBDA k : HasKey(input, k))
  IN [i \in 1..Len(keys) |->
        [key |-> keys[i], val |-> weight * Lookup(input, keys[i]) + ModeFactor(mode)]]

JobAccessibility(engine, jobs, mode) ==
  IF mode \notin SupportedModes
  THEN [ok |-> FALSE, error |-> "Unsupported Mode", series |-> <<>>]
  ELSE [ok |-> TRUE, error |-> "", series |-> EngineSeries(engine, jobs, mode, 5)]

GreenspaceAccessibility(engine, gsp, mode) ==
  IF mode \notin SupportedModes
  THEN [ok |-> FALSE, error |-> "Unsupported Mode", series |-> <<>>]
  ELSE [ok |-> TRUE, error |-> "", series |-> EngineSeries(engine, gsp, mode, 7)]

\* ------------------------------------------------------------------ pandas
\* Mutant of Reindex: the engine's values taken by position (.values without [df.index]).
ReindexPositional(series, index) == [i \in DOMAIN index |-> series[i].val]

\* series[index].values: the values selected by label, in the order of index.
Reindex(series, index) == [i \in DOMAIN index |-> Lookup(series, index[i])]

\* Mutant of DataFrame: index=df.index left out, so the frame gets a range index.
DataFrameRangeIndex(aq, hp, ja, gs, index) ==
  [index |-> [i \in DOMAIN index |-> i - 1],
   rows |-> [i \in DOMAIN index |->
               [air_quality |-> aq[i], house_price |-> hp[i],
                job_accessibility |-> ja[i], greenspace_accessibility |-> gs[i]]]]

\* pd.DataFrame({...}, index=index): one row per index entry, columns by position.
DataFrame(aq, hp, ja, gs, index) ==
  [index |-> index,
   rows |-> [i \in DOMAIN index |->
               [air_quality |-> aq[i], house_price |-> hp[i],
                job_accessibility |-> ja[i], greenspace_accessibility |-> gs[i]]]]

\* ----------------------------------------------------------- get_indicators
Models == <<air_quality_predictor, house_price_predictor, accessibility>>

NoLocals == [aq |-> <<>>, hp |-> <<>>, ja |-> <<>>, gs |-> <<>>]

\* Mutant of Raise: the engine's error is caught and the columns computed so far
\* are returned, the others missing.
RaiseSwallowed(df, mode, random_seed, error, trace, locals) ==
  [fn |-> "get_indicators", df |-> df, mode |-> mode, seed |-> random_seed,
   status |-> "ok", returned |-> TRUE, error |-> "", trace |-> trace,
   locals |-> locals,
   out |-> DataFrame(locals.aq, locals.hp, [i \in DOMAIN df.index |-> NaN],
                     [i \in DOMAIN df.index |-> NaN], df.index),
   dfAfter |-> df, models |-> Models]

\* An exception leaving get_indicators: nothing is returned.
Raise(df, mode, random_seed, error, trace, locals) ==
  [fn |-> "get_indicators", df |-> df, mode |-> mode, seed |-> random_seed,
   status |-> "error", returned |-> FALSE, error |-> error, trace |-> trace,
   locals |-> locals, out |-> EmptyFrame, dfAfter |-> df, models |-> Models]

\* Mutant of Return: the accessibility engine is loaded again inside the call.
ReturnReloading(df, mode, random_seed, out, trace, locals) ==
  [fn |-> "get_indicators", df |-> df, mode |-> mode, seed |-> random_seed,
   status |-> "ok", returned |-> TRUE, error |-> "", trace |-> trace,
   locals |-> locals, out |-> out, dfAfter |-> df,
   models |-> <<air_quality_predictor, house_price_predictor,
                [accessibility EXCEPT !.loads = 2]>>]

Return(df, mode, random_seed, out, trace, locals) ==
  [fn |-> "get_indicators", df |-> df, mode |-> mode, seed |-> random_seed,
   status |-> "ok", returned |-> TRUE, error |-> "", trace |-> trace,
   locals |-> locals, out |-> out, dfAfter |-> df, models |-> Models]

\* Mutant of Sample: random_seed is not handed to the sampler.
SampleUnseeded(df, random_seed, noise) == GetData(df, None, noise)

\* Line 76: get_data(df, random_seed=random_seed).
Sample(df, random_seed, noise) == GetData(df, random_seed, noise)

\* Lines 76-92.  noise is the entropy an unseeded sampler draws.
get_indicators(df, mode, random_seed, noise) ==
  LET d == Sample(df, random_seed, noise)
      aq == Predict(air_quality_predictor, d.vars)
      hp == Predict(house_price_predictor, d.vars)
      ja == JobAccessibility(accessibility, d.jobs, mode)
      gs == GreenspaceAccessibility(accessibility, d.gsp, mode)
  IN IF ~ja.ok
     THEN Raise(df, mode, random_seed, ja.error,
                <<"get_data", "air_quality.predict", "house_price.predict",
                  "job_accessibility">>,
                [aq |-> aq, hp |-> hp, ja |-> <<>>, gs |-> <<>>])
     ELSE IF ~gs.ok
     THEN Raise(df, mode, random_seed, gs.error,
                <<"get_data", "air_quality.predict", "house_price.predict",
                  "job_accessibility", "greenspace_accessibility">>,
                [aq |-> aq, hp |-> hp, ja |-> ja.series, gs |-> <<>>])
     ELSE Return(df, mode, random_seed,
                 DataFrame(aq, hp, Reindex(ja.series, df.index),
                           Reindex(gs.series, df.index), df.index),
                 <<"get_data", "air_quality.predict", "house_price.predict",
                   "job_accessibility", "greenspace_accessibility">>,
                 [aq |-> aq, hp |-> hp, ja |-> ja.series, gs |-> gs.series])

\* ------------------------------------------------------ get_indicators_lsoa
\* Mutant of AssignLsoa: the column assigned by position (lsoa11cd.values).
AssignLsoaPositional(index, series) == [i \in DOMAIN index |-> series[i].val]

\* frame.assign(lsoa=series): the series aligned to the frame's index by label.
AssignLsoa(index, series) ==
  [i \in DOMAIN index |->
     IF HasKey(series, index[i]) THEN Lookup(series, index[i]) ELSE NaN]

IndexOf(df, label) == CHOOSE j \in DOMAIN df.index : df.index[j] = label

\* Mutant of MergeLeft: how="inner", which keeps only the matched rows.
MergeInner(index, lsoa, df) ==
  LET keep == SelectSeq([i \in DOMAIN index |-> i],
                        LAMBDA i : lsoa[i] \in Range(df.index))
  IN [index |-> [k \in DOMAIN keep |-> index[keep[k]]],
      rows |-> [k \in DOMAIN keep |-> df.rows[IndexOf(df, lsoa[keep[k]])]]]

\* [["lsoa"]].merge(df, left_on="lsoa", right_index=True, how="left").drop("lsoa"):
\* one row per left row, under the left index; unmatched rows hold missing values.
MergeLeft(index, lsoa, df) ==
  [index |-> index,
   rows |-> [i \in DOMAIN index |->
               IF lsoa[i] \in Range(df.index)
               THEN df.rows[IndexOf(df, lsoa[i])]
               ELSE NaNRow]]

Positions(lsoa, g) == SelectSeq([i \in DOMAIN lsoa |-> i], LAMBDA i : lsoa[i] = g)

Column(rows, ps, c) == [k \in DOMAIN ps |-> rows[ps[k]][c]]

\* Mutant of Mean: .sum() in place of .mean().
MeanAsSum(xs) == ToFloat(SumSeq(xs))

\* The float mean of one column of a group.
Mean(xs) == Div(SumSeq(xs), Len(xs))

\* .groupby("lsoa").mean(): one row per group key, keys sorted, missing keys dropped.
GroupByMean(frame, lsoa) ==
  LET keys == SortedSeq(Range(lsoa) \ {NaN})
  IN [index |-> keys,
      rows |-> [k \in DOMAIN keys |->
                  LET ps == Positions(lsoa, keys[k])
                  IN [air_quality |-> Mean(Column(frame.rows, ps, "air_quality")),
                      house_price |-> Mean(Column(frame.rows, ps, "house_price")),
                      job_accessibility |->
                        Mean(Column(frame.rows, ps, "job_accessibility")),
                      greenspace_accessibility |->
                        Mean(Column(frame.rows, ps, "greenspace_accessibility"))]]]

LsoaResult(df, status, error, trace, merged, inner, out, got) ==
  [fn |-> "get_indicators_lsoa", df |-> df, mode |-> "walk", seed |-> None,
   status |-> status, returned |-> (status = "ok"), error |-> error, trace |-> trace,
   locals |-> inner.locals,
   out |-> out, dfAfter |-> df, models |-> inner.models,
   merged |-> merged, inner |-> inner.out, fetched |-> fetched \cup got]

NoInner == [locals |-> NoLocals, models |-> Models, out |-> EmptyFrame]

\* Lines 151-159.
get_indicators_lsoa(df, noise) ==
  IF ~Fetch("empty.parquet")
  THEN LsoaResult(df, "error", "fetch empty.parquet", <<"fetch empty.parquet">>,
                  EmptyFrame, NoInner, EmptyFrame, {})
  ELSE IF ~Fetch("oa_lsoa.parquet")
  THEN LsoaResult(df, "error", "fetch oa_lsoa.parquet",
                  <<"fetch empty.parquet", "fetch oa_lsoa.parquet">>,
                  EmptyFrame, NoInner, EmptyFrame, {"empty.parquet"})
  ELSE
    LET empty == files.empty
        lsoa_oa == files.oa_lsoa
        got == {"empty.parquet", "oa_lsoa.parquet"}
        fetches == <<"fetch empty.parquet", "fetch oa_lsoa.parquet">>
        merged == MergeLeft(empty, AssignLsoa(empty, lsoa_oa), df)
        r == get_indicators(merged, "walk", None, noise)
    IN IF r.status = "error"
       THEN LsoaResult(df, "error", r.error, fetches \o r.trace, merged, r,
                       EmptyFrame, got)
       ELSE LsoaResult(df, "ok", "", fetches \o r.trace, merged, r,
                       GroupByMean(r.out, AssignLsoa(r.out.index, lsoa_oa)), got)

\* ------------------------------------------------------------------ state
\* The reference table lists the output areas in descending order of code, the
\* mapping table lists them in ascending order: the two are aligned by label.
EmptyIndex == [i \in 1..NumOA |-> SortedSeq(OACodes)[NumOA + 1 - i]]

OaLsoaTables ==
  { [i \in 1..NumOA |-> [key |-> SortedSeq(OACodes)[i], val |-> m[SortedSeq(OACodes)[i]]]] :
      m \in [OACodes -> LsoaCodes] }

\* A mapping with one larger area of two output areas and one of a single one.
SampleOaLsoa ==
  [i \in 1..NumOA |->
     [key |-> SortedSeq(OACodes)[i], val |-> IF i < NumOA THEN 101 ELSE 102]]

\* The engine's own order of areas: ascending, or rotated by one.
EngineOrders ==
  { SortedSeq(OACodes), [i \in 1..NumOA |-> SortedSeq(OACodes)[(i % NumOA) + 1]] }

FileContents ==
  [engineOrder : EngineOrders, empty : {EmptyIndex}, oa_lsoa : OaLsoaTables]

\* Scenario tables a caller may hold: per output area, or per larger area
\* (possibly naming an identifier the mapping does not carry).
OAScenarios == Tables(OACodes, ScenarioRows, MaxRows)
LsoaScenarios == Tables(LsoaCodes \cup UnknownCodes, ScenarioRows, MaxRows)

\* With an artifact missing from the cache the caller's table has at most one row.
SmallScenarios ==
  Tables(OACodes, ScenarioRows, 1) \cup Tables(LsoaCodes \cup UnknownCodes, ScenarioRows, 1)

NoCall ==
  [fn |-> "none", df |-> EmptyFrame, mode |-> "", seed |-> None, status |-> "none",
   returned |-> FALSE, error |-> "", trace |-> <<>>, locals |-> NoLocals, out |-> EmptyFrame,
   dfAfter |-> EmptyFrame, models |-> <<Unloaded, Unloaded, Unloaded>>]

\* The caller keeps the table of its latest successful seeded call (out), and, when
\* the same mode and seed are passed again, the table of the repeated call (again).
NoSeeded == [mode |-> "", seed |-> None, calls |-> 0, out |-> EmptyFrame, again |-> EmptyFrame]

Record(r) ==
  IF r.status # "ok" \/ r.seed = None THEN seeded
  ELSE IF seeded.calls > 0 /\ seeded.mode = r.mode /\ seeded.seed = r.seed
  THEN [seeded EXCEPT !.calls = 2, !.again = r.out]
  ELSE [mode |-> r.mode, seed |-> r.seed, calls |-> 1, out |-> r.out, again |-> r.out]

Init ==
  /\ proc = "init"
  /\ files \in FileContents
  /\ fetched = {}
  /\ air_quality_predictor = Unloaded
  /\ house_price_predictor = Unloaded
  /\ accessibility = Unloaded
  /\ \/ /\ available = Artifacts
        /\ scenario \in LsoaScenarios
     \/ /\ available = Artifacts
        /\ scenario \in OAScenarios
        /\ files.oa_lsoa = SampleOaLsoa
     \/ /\ available \in {Artifacts \ {a} : a \in Artifacts}
        /\ scenario \in SmallScenarios
  /\ last = NoCall
  /\ seeded = NoSeeded

\* pickle.load / joblib.load of a fetched artifact.
Load(name) ==
  [artifact |-> name, loads |-> 1,
   order |-> IF name = "accessibility" THEN files.engineOrder ELSE <<>>]

\* The artifacts resolved by the import: those before the first that fails.
RECURSIVE FetchedPrefix(_)
FetchedPrefix(names) ==
  IF names = <<>> \/ ~Fetch(Head(names)) THEN {}
  ELSE {Head(names)} \cup FetchedPrefix(Tail(names))

\* Mutant of Startup: a failed fetch is swallowed and the import goes on.
StartupLazy ==
  /\ proc = "init"
  /\ LET got == {n \in Range(PredictorArtifacts) : Fetch(n)}
     IN /\ fetched' = fetched \cup got
        /\ air_quality_predictor' =
             IF "air_quality_predictor" \in got
             THEN Load("air_quality_predictor") ELSE Unloaded
        /\ house_price_predictor' =
             IF "house_price_predictor" \in got
             THEN Load("house_price_predictor") ELSE Unloaded
        /\ accessibility' =
             IF "accessibility" \in got THEN Load("accessibility") ELSE Unloaded
        /\ proc' = "running"
  /\ UNCHANGED <<available, files, scenario, last, seeded>>

\* Lines 8-15: the module's import.
Startup ==
  /\ proc = "init"
  /\ LET got == FetchedPrefix(PredictorArtifacts)
     IN /\ fetched' = fetched \cup got
        /\ air_quality_predictor' =
             IF "air_quality_predictor" \in got
             THEN Load("air_quality_predictor") ELSE Unloaded
        /\ house_price_predictor' =
             IF "house_price_predictor" \in got
             THEN Load("house_price_predictor") ELSE Unloaded
        /\ accessibility' =
             IF "accessibility" \in got THEN Load("accessibility") ELSE Unloaded
        /\ proc' = IF got = Range(PredictorArtifacts) THEN "running" ELSE "failed"
  /\ UNCHANGED <<available, files, scenario, last, seeded>>

\* A caller's get_indicators(scenario, mode, random_seed).
GetIndicators ==
  /\ proc = "running"
  /\ scenario \in OAScenarios
  /\ \E mode \in CallModes, random_seed \in Seeds, noise \in Noises :
       \E r \in {get_indicators(scenario, mode, random_seed, noise)} :
          /\ last' = r
          /\ seeded' = Record(r)
          /\ scenario' = r.dfAfter
          /\ air_quality_predictor' = r.models[1]
          /\ house_price_predictor' = r.models[2]
          /\ accessibility' = r.models[3]
  /\ UNCHANGED <<proc, available, files, fetched>>

\* A caller's get_indicators_lsoa(scenario).
GetIndicatorsLsoa ==
  /\ proc = "running"
  /\ \E noise \in Noises :
       \E r \in {get_indicators_lsoa(scenario, noise)} :
          /\ last' = r
          /\ scenario' = r.dfAfter
          /\ fetched' = r.fetched
          /\ air_quality_predictor' = r.models[1]
          /\ house_price_predictor' = r.models[2]
          /\ accessibility' = r.models[3]
  /\ UNCHANGED <<proc, available, files, seeded>>

Next == Startup \/ GetIndicators \/ GetIndicatorsLsoa

Spec == Init /\ [][Next]_vars

\* ------------------------------------------------------------------ claims
Columns ==
  {"air_quality", "house_price", "job_accessibility", "greenspace_accessibility"}

IsGI == last.fn = "get_indicators"
IsLsoa == last.fn = "get_indicators_lsoa"

\* The Area-Mapping Table read as a lookup, and its larger areas.
MappingOf(u) == Lookup(files.oa_lsoa, u)
MappedLsoas == {files.oa_lsoa[i].val : i \in DOMAIN files.oa_lsoa}
Members(L) == {files.oa_lsoa[i].key : i \in {j \in DOMAIN files.oa_lsoa : files.oa_lsoa[j].val = L}}

\* The per-output-area indicator of the get_indicators call made inside the last
\* get_indicators_lsoa call, found by label.
InnerVal(u, c) == last.inner.rows[IndexOf(last.inner, u)][c]

RECURSIVE InnerSum(_, _)
InnerSum(S, c) ==
  IF S = {} THEN 0
  ELSE LET u == CHOOSE x \in S : TRUE IN InnerVal(u, c) + InnerSum(S \ {u}, c)

\* C1: whenever get_indicators returns, the returned table's index is the input
\* table's index, entry by entry in the same order, with one row per input row.
C1_IndexPreserved ==
  (IsGI /\ last.status = "ok") =>
    /\ last.out.index = last.df.index
    /\ Len(last.out.rows) = Len(last.df.index)
    /\ \A i \in DOMAIN last.out.rows : DOMAIN last.out.rows[i] = Columns

\* A returned table of two rows whose index is neither ascending nor in the
\* engine's order.
C1_Witness ==
  /\ IsGI /\ last.status = "ok"
  /\ Len(last.df.index) = 2
  /\ last.df.index[1] > last.df.index[2]
  /\ last.locals.ja[1].key # last.df.index[1]

\* C2: a get_indicators call with an unsupported mode fails with the engine's
\* "Unsupported Mode" error and returns no table; by then get_data and both
\* predictors have run, and job_accessibility is the call that rejected the mode.
C2_UnsupportedMode ==
  (IsGI /\ last.mode \notin SupportedModes) =>
    /\ last.status = "error"
    /\ last.error = "Unsupported Mode"
    /\ ~last.returned
    /\ last.out = EmptyFrame
    /\ last.trace = <<"get_data", "air_quality.predict", "house_price.predict",
                      "job_accessibility">>
    /\ Len(last.locals.aq) = Len(last.df.index)
    /\ Len(last.locals.hp) = Len(last.df.index)

C2_Witness ==
  /\ IsGI /\ last.mode = "spaceship"
  /\ Len(last.df.index) >= 1
  /\ Len(last.locals.aq) >= 1

\* C3: whenever get_indicators_lsoa returns, its table has exactly one row per
\* distinct larger area of the Area-Mapping Table, whatever the input names.
C3_OneRowPerLsoa ==
  (IsLsoa /\ last.status = "ok") =>
    /\ Injective(last.out.index)
    /\ Range(last.out.index) = MappedLsoas
    /\ Len(last.out.rows) = Cardinality(MappedLsoas)

\* The input names no larger area of the mapping (only an unknown identifier),
\* and the mapping has two larger areas.
C3_Witness ==
  /\ IsLsoa /\ last.status = "ok"
  /\ Cardinality(MappedLsoas) = 2
  /\ Len(last.df.index) >= 1
  /\ Range(last.df.index) \cap MappedLsoas = {}
  /\ Len(last.out.rows) = 2

\* C4: a successful get_indicators call that repeats the mode and the seed of the
\* caller's latest successful seeded call on the same table returns the same
\* table, whatever calls were made in between.
C4_SeededRepeatable ==
  seeded.calls = 2 => seeded.again = seeded.out

\* The same seeded call was made twice on a table of two rows, and a
\* get_indicators_lsoa call followed.
C4_Witness ==
  /\ seeded.calls = 2
  /\ Len(seeded.out.index) = 2
  /\ IsLsoa

\* C5: for a larger area with exactly one output area, each column of its row in
\* the table get_indicators_lsoa returns is the value get_indicators returned for
\* that output area.
C5_SingletonMean ==
  (IsLsoa /\ last.status = "ok") =>
    \A k \in DOMAIN last.out.index :
      LET L == last.out.index[k] IN
      Cardinality(Members(L)) = 1 =>
        \A u \in Members(L) : \A c \in Columns :
          last.out.rows[k][c] = ToFloat(InnerVal(u, c))

\* A larger area of one output area, named by the input.
C5_Witness ==
  /\ IsLsoa /\ last.status = "ok"
  /\ \E L \in Range(last.df.index) : Cardinality(Members(L)) = 1

\* C6 as stated: once the import has succeeded, all five artifacts have been
\* resolved through the cache.
C6_AllFiveAtStartup ==
  proc = "running" => Artifacts \subseteq fetched

ParquetArtifacts == {"empty.parquet", "oa_lsoa.parquet"}

\* C6 amended: the import resolves the three predictor artifacts and fails when
\* one cannot be resolved, so no call runs without them; the two parquet tables
\* are resolved by get_indicators_lsoa calls only, and such a call fails when one
\* of them cannot be resolved, while get_indicators does not need them.
C6_PredictorsAtStartup ==
  /\ proc = "running" =>
       Range(PredictorArtifacts) \subseteq (fetched \cap available)
  /\ proc = "failed" => ~(Range(PredictorArtifacts) \subseteq available)
  /\ last.fn # "none" => proc = "running"
  /\ last.fn = "none" => fetched \cap ParquetArtifacts = {}
  /\ (IsLsoa /\ ~(ParquetArtifacts \subseteq available)) =>
       /\ last.status = "error"
       /\ last.error \in {"fetch empty.parquet", "fetch oa_lsoa.parquet"}
  /\ (IsLsoa /\ last.status = "ok") => ParquetArtifacts \subseteq fetched
  /\ (IsGI /\ last.mode \in SupportedModes) => last.status = "ok"

\* The import succeeded without oa_lsoa.parquet, and a get_indicators_lsoa call
\* then failed on resolving it.
C6_Witness ==
  /\ proc = "running"
  /\ "oa_lsoa.parquet" \notin available
  /\ IsLsoa /\ last.status = "error"
  /\ fetched = Range(PredictorArtifacts) \cup {"empty.parquet"}

C8_ReindexedByLabel ==
  (IsGI /\ last.status = "ok") =>
    \A i \in DOMAIN last.df.index :
      /\ \E j \in DOMAIN last.locals.ja :
           /\ last.locals.ja[j].key = last.df.index[i]
           /\ last.out.rows[i].job_accessibility = last.locals.ja[j].val
      /\ \E j \in DOMAIN last.locals.gs :
           /\ last.locals.gs[j].key = last.df.index[i]
           /\ last.out.rows[i].greenspace_accessibility = last.locals.gs[j].val

\* The engine answered in an order other than the table's.
C8_Witness ==
  /\ IsGI /\ last.status = "ok"
  /\ Len(last.df.index) = 2
  /\ \E i \in DOMAIN last.df.index : last.locals.ja[i].key # last.df.index[i]
  /\ last.out.rows[1].job_accessibility # last.out.rows[2].job_accessibility

\* C9: each column of the row of larger area L is the sum of the per-output-area
\* values over the output areas the mapping assigns to L, divided by their number;
\* every output area is counted in the row of exactly one larger area.
C9_UnweightedMean ==
  (IsLsoa /\ last.status = "ok") =>
    /\ \A k \in DOMAIN last.out.index : \A c \in Columns :
         LET M == Members(last.out.index[k])
         IN last.out.rows[k][c] = Div(InnerSum(M, c), Cardinality(M))
    /\ \A u \in Range(last.inner.index) :
         Cardinality({k \in DOMAIN last.out.index : u \in Members(last.out.index[k])}) = 1

\* A larger area of several output areas whose mean is not a whole number.
C9_Witness ==
  /\ IsLsoa /\ last.status = "ok"
  /\ \E k \in DOMAIN last.out.index :
       /\ Cardinality(Members(last.out.index[k])) >= 2
       /\ last.out.rows[k].house_price[2] > 1

\* C10: the table get_indicators_lsoa passes to get_indicators has the reference
\* table's index; each row carries the input row of its output area's larger area,
\* or missing values when the input has no such row.
C10_LeftJoin ==
  (IsLsoa /\ ParquetArtifacts \subseteq available) =>
    /\ last.merged.index = files.empty
    /\ Len(last.merged.rows) = Len(files.empty)
    /\ \A i \in DOMAIN files.empty :
         LET L == MappingOf(files.empty[i])
         IN last.merged.rows[i] =
              IF L \in Range(last.df.index)
              THEN last.df.rows[IndexOf(last.df, L)] ELSE NaNRow

\* The input names an unknown identifier and a mapped one; some rows are matched,
\* some are not.
C10_Witness ==
  /\ IsLsoa /\ last.status = "ok"
  /\ Len(last.df.index) = 2
  /\ Range(last.df.index) \ MappedLsoas # {}
  /\ \E i \in DOMAIN last.merged.rows : last.merged.rows[i] = NaNRow
  /\ \E i \in DOMAIN last.merged.rows : last.merged.rows[i] # NaNRow
  /\ \E i, j \in DOMAIN last.merged.rows : last.merged.rows[i] # last.merged.rows[j]

====
